---- MODULE Spec2Model ----
(***************************************************************************)
(* Model of mcp-openai-image: the Credential Store (ConfigManager), the    *)
(* Output Store (FileManager), the Generation Client (ImageGenerator) and  *)
(* the Request Router (MCPImageServer).                                    *)
(*                                                                         *)
(* Conventions.  A JavaScript value that may be undefined is a tuple:      *)
(* <<>> is undefined and <<v>> is the value v.  A string-typed parameter   *)
(* that may be omitted uses the token Undef.  A text (an error message or  *)
(* a tool response) is a sequence of tokens; a literal fragment is one     *)
(* token, an embedded value is the token(s) of that value.  An API key is  *)
(* a sequence of one-character tokens, so that prefixes of it can be taken *)
(* and recognised inside a text.  Time is an integer clock; a file name    *)
(* openai-image-<timestamp>-<random>.<ext> is the record of its parts, and *)
(* names are ordered as the strings are.                                   *)
(***************************************************************************)
EXTENDS Integers, Sequences, FiniteSets, TLC

VARIABLES
  config,    \* ConfigManager.config: the cached in-memory Credential Record
  file,      \* the credential file ~/.mcp-openai-image.json
  dir,       \* the names of the files in the output directory ~/Desktop
  openai,    \* ImageGenerator.openai: the upstream client, once initialised
  started,   \* MCPImageServer: the transport is connected
  now,       \* the wall clock read by new Date()
  written,   \* history: names created by saveImageToDesktop (any session)
  calls,     \* history: the number of calls made so far
  last,      \* history: the last operation, its input, result and I/O
  tasks      \* the update operations in flight and the objects they hold

vars ==
  <<config, file, dir, openai, started, now, written, calls, last, tasks>>

----------------------------------------------------------------------------
(* Bounds *)

MaxCalls == 3          \* calls made in the modelled session
MaxClock == 1          \* the clock runs 0..MaxClock
MaxWrites == 1         \* artifacts written in the modelled session
MaxRand == 1           \* distinct random suffixes 1..MaxRand
MaxCfgWrites == 3      \* credential-file writes one call can attempt
MaxPayloadLen == 2     \* characters of a base64 payload
MaxKeep == 3           \* keepCount arguments 0..MaxKeep of a direct prune
MaxWords == 3          \* words of an error text given to the classification
MaxTasks == 2          \* update operations that can be in flight together

----------------------------------------------------------------------------
(* Values *)

Undef == "<undefined>"
Empty == ""

Range(s) == {s[i] : i \in 1..Len(s)}
Min(a, b) == IF a < b THEN a ELSE b

SUPPORTED_MODELS == <<"gpt-4.1", "gpt-4.1-mini", "gpt-4o", "gpt-4o-mini">>
SUPPORTED_SIZES == <<"1024x1024", "1024x1792", "1792x1024">>
SUPPORTED_QUALITIES == <<"low", "medium", "high", "auto">>
SUPPORTED_FORMATS == <<"png", "jpeg", "webp">>
SUPPORTED_BACKGROUNDS == <<"transparent", "opaque", "auto">>

\* Array.prototype.includes
Includes(arr, v) == \E i \in 1..Len(arr) : arr[i] = v
\* Array.prototype.join(', ') as tokens
Join(arr) == arr

\* String.prototype.includes(keyword) on a text
TextIncludes(text, kw) == \E i \in 1..Len(text) : text[i] = kw

\* API keys: sequences of one-character tokens
KeyShort == <<"s", "k", "-", "a">>
KeyLong == <<"s", "k", "-", "b", "c", "d", "e", "f", "g", "h", "i", "j">>
KeyBad == <<"p", "k", "-", "a">>
KeyEmpty == <<>>
KeyInputs == {KeyShort, KeyLong, KeyBad, KeyEmpty}

StartsWithSk(k) == Len(k) >= 3 /\ SubSeq(k, 1, 3) = <<"s", "k", "-">>

\* String.prototype.substring(0, n)
Substring0(k, n) == SubSeq(k, 1, Min(n, Len(k)))

----------------------------------------------------------------------------
(* Results of the asynchronous operations: the state the operation leaves, *)
(* whether it threw, and the message of the thrown Error.                  *)

Ret(s) == [s |-> s, thrown |-> FALSE, msg |-> <<>>]
Throw(s, m) == [s |-> s, thrown |-> TRUE, msg |-> m]

\* TypeError raised when a property of null is read or set
NullDeref == <<"Cannot read properties of null">>

----------------------------------------------------------------------------
(* Credential Store: ConfigManager *)

DefaultModel == "gpt-4.1"

createDefaultConfig(t) ==
  [apiKey |-> <<>>, organization |-> Undef, model |-> DefaultModel,
   defaultSize |-> "1024x1024", defaultQuality |-> "standard",
   defaultFormat |-> "png", lastUsed |-> <<>>,
   createdAt |-> t, updatedAt |-> t]

\* Variant of saveConfig that leaves updatedAt as it is
saveConfigNoStamp(s, e) ==
  LET c == s.config[1]
      k == s.wtry + 1
      s1 == [s EXCEPT !.config = <<c>>, !.wtry = k]
  IN IF e.writeOk[k]
     THEN Ret([s1 EXCEPT !.file = [kind |-> "json", rec |-> <<c>>],
                         !.wdone = @ + 1])
     ELSE Throw(s1, <<"Failed to save configuration: ", "EACCES">>)

\* saveConfig(config), called on the cached object: updatedAt is stamped on
\* the object before the write; the file changes only if the write succeeds.
saveConfig(s, e) ==
  LET c == [s.config[1] EXCEPT !.updatedAt = s.now]
      k == s.wtry + 1
      s1 == [s EXCEPT !.config = <<c>>, !.wtry = k]
  IN IF e.writeOk[k]
     THEN Ret([s1 EXCEPT !.file = [kind |-> "json", rec |-> <<c>>],
                         !.wdone = @ + 1])
     ELSE Throw(s1, <<"Failed to save configuration: ", "EACCES">>)

\* loadConfig(): the cache if truthy; else the parsed file; else (read or
\* parse failure) a default record, cached and then saved.
loadConfig(s, e) ==
  IF s.config # <<>> THEN Ret(s)
  ELSE LET s1 == [s EXCEPT !.reads = @ + 1] IN
       IF e.readOk /\ s.file.kind = "json"
       THEN Ret([s1 EXCEPT !.config = s.file.rec])
       ELSE IF e.readOk /\ s.file.kind = "null"
       THEN Ret(s1)
       ELSE saveConfig([s1 EXCEPT !.config = <<createDefaultConfig(s.now)>>], e)

validateApiKey(apiKey) == apiKey # <<>> /\ StartsWithSk(apiKey)

getConfigStatus(s, e) ==
  LET loaded(r) ==
        IF r.thrown THEN r @@ [val |-> <<>>]
        ELSE IF r.s.config = <<>> THEN Throw(r.s, NullDeref) @@ [val |-> <<>>]
        ELSE LET c == r.s.config[1] IN
             Ret(r.s) @@ [val |-> <<[configured |-> c.apiKey # <<>>,
                                     hasApiKey |-> c.apiKey # <<>>,
                                     model |-> c.model,
                                     organization |-> c.organization,
                                     lastUsed |-> c.lastUsed]>>]
  IN loaded(loadConfig(s, e))

\* Variant of updateApiKey that does not ask for an organization
updateApiKeyAnyOrganization(s, apiKey, organization, e) ==
  IF ~validateApiKey(apiKey)
  THEN Throw(s, <<"Invalid ", "API key", " format. ", "API key",
                  " must start with \"sk-\"">>)
  ELSE LET loaded(r) ==
             IF r.thrown THEN r
             ELSE IF r.s.config = <<>> THEN Throw(r.s, NullDeref)
             ELSE saveConfig([r.s EXCEPT !.config[1].apiKey = <<apiKey>>,
                                         !.config[1].organization = organization],
                             e)
       IN loaded(loadConfig(s, e))

\* updateApiKey(apiKey, organization): both checks come before loadConfig
updateApiKey(s, apiKey, organization, e) ==
  IF ~validateApiKey(apiKey)
  THEN Throw(s, <<"Invalid ", "API key", " format. ", "API key",
                  " must start with \"sk-\"">>)
  ELSE IF organization \in {Undef, Empty}
  THEN Throw(s, <<"Organization ID is required for image generation">>)
  ELSE LET loaded(r) ==
             IF r.thrown THEN r
             ELSE IF r.s.config = <<>> THEN Throw(r.s, NullDeref)
             ELSE saveConfig([r.s EXCEPT !.config[1].apiKey = <<apiKey>>,
                                         !.config[1].organization = organization],
                             e)
       IN loaded(loadConfig(s, e))

\* Variant of updateModel that accepts every model
updateModelAnyModel(s, model, e) ==
  LET loaded(r) ==
        IF r.thrown THEN r
        ELSE IF r.s.config = <<>> THEN Throw(r.s, NullDeref)
        ELSE saveConfig([r.s EXCEPT !.config[1].model = model], e)
  IN loaded(loadConfig(s, e))

\* updateModel(model): the check comes before loadConfig
updateModel(s, model, e) ==
  IF ~Includes(SUPPORTED_MODELS, model)
  THEN Throw(s, <<"Unsupported ", "model", ": ", model, ". Supported ",
                  "model", "s: ">> \o Join(SUPPORTED_MODELS))
  ELSE LET loaded(r) ==
             IF r.thrown THEN r
             ELSE IF r.s.config = <<>> THEN Throw(r.s, NullDeref)
             ELSE saveConfig([r.s EXCEPT !.config[1].model = model], e)
       IN loaded(loadConfig(s, e))

\* Variant of updateLastUsed that ignores a failure of the save
updateLastUsedBestEffort(s, e) ==
  LET saved(r) == IF r.thrown THEN Ret(r.s) ELSE r
      loaded(r) ==
        IF r.thrown THEN r
        ELSE IF r.s.config = <<>> THEN Throw(r.s, NullDeref)
        ELSE saved(saveConfig([r.s EXCEPT !.config[1].lastUsed = <<s.now>>], e))
  IN loaded(loadConfig(s, e))

\* updateLastUsed(): loadConfig, set lastUsed, saveConfig
updateLastUsed(s, e) ==
  LET loaded(r) ==
        IF r.thrown THEN r
        ELSE IF r.s.config = <<>> THEN Throw(r.s, NullDeref)
        ELSE saveConfig([r.s EXCEPT !.config[1].lastUsed = <<s.now>>], e)
  IN loaded(loadConfig(s, e))

\* getApiKey / getOrganization / getModel: loadConfig, then one field
getField(s, e) ==
  LET loaded(r) ==
        IF r.thrown THEN r
        ELSE IF r.s.config = <<>> THEN Throw(r.s, NullDeref)
        ELSE r
  IN loaded(loadConfig(s, e))

----------------------------------------------------------------------------
(* Output Store: FileManager *)

Prefix == "openai-image-"
ListedExts == {"png", "jpg", "jpeg", "webp"}

\* The name of a file of the output directory, by its parts
FileName(prefix, stamp, rand, ext) ==
  [prefix |-> prefix, stamp |-> stamp, rand |-> rand, ext |-> ext]

\* The sentinel file of checkDiskSpace
TestFile == FileName(".mcp-test", 0, 0, "")

generateUniqueFilename(format, t, rand) ==
  FileName(Prefix, t, rand, IF format = "jpeg" THEN "jpg" ELSE format)

\* Base64 payloads: "A" stands for a character of the base64 alphabet, "="
\* for padding, " " for whitespace and "!" for any other character.
B64Chars == {"A", "=", " ", "!"}

RECURSIVE TrimStart(_)
TrimStart(p) == IF p # <<>> /\ Head(p) = " " THEN TrimStart(Tail(p)) ELSE p

RECURSIVE TrimEnd(_)
TrimEnd(p) ==
  IF p # <<>> /\ p[Len(p)] = " " THEN TrimEnd(SubSeq(p, 1, Len(p) - 1)) ELSE p

\* String.prototype.trim
Trim(p) == TrimEnd(TrimStart(p))

\* Characters that carry data: decoding stops at the first padding character
\* and skips every character outside the alphabet.
RECURSIVE DataChars(_)
DataChars(p) ==
  IF p = <<>> \/ Head(p) = "=" THEN 0
  ELSE (IF Head(p) = "A" THEN 1 ELSE 0) + DataChars(Tail(p))

\* Buffer.from(base64Data, 'base64').length
DecodedLength(p) == (6 * DataChars(p)) \div 8

\* saveImageToDesktop(base64Data, format, metadata)
saveImageToDesktop(s, base64Data, format, e) ==
  IF base64Data = <<>> \/ Len(Trim(base64Data)) = 0
  THEN Throw(s, <<"Failed to save image to desktop: ",
                  "Invalid base64 data provided">>) @@ [val |-> <<>>]
  ELSE LET fileName == generateUniqueFilename(format, s.now, e.rand)
           s1 == [s EXCEPT !.atry = @ + 1]
       IN IF e.artOk
          THEN Ret([s1 EXCEPT !.dir = @ \cup {fileName},
                              !.written = @ \cup {fileName},
                              !.art = @ + 1,
                              !.bytes = DecodedLength(base64Data)])
               @@ [val |-> <<fileName>>]
          ELSE Throw(s1, <<"Failed to save image to desktop: ", "ENOSPC">>)
               @@ [val |-> <<>>]

ensureDesktopExists(s, e) ==
  IF e.accessOk THEN Ret(s)
  ELSE Throw(s, <<"Desktop directory not accessible: ", "~/Desktop">>)

\* checkDiskSpace(): writes the sentinel, then unlinks it
checkDiskSpace(s, e) ==
  IF ~e.probeWriteOk THEN Ret(s) @@ [val |-> FALSE]
  ELSE IF TestFile \in e.unlinkFail
  THEN Ret([s EXCEPT !.dir = @ \cup {TestFile}]) @@ [val |-> FALSE]
  ELSE Ret([s EXCEPT !.dir = @ \ {TestFile}]) @@ [val |-> TRUE]

\* Variant of IsListed that tests the prefix only
IsListedByPrefix(f) == f.prefix = Prefix

\* The filter of getImageHistory
IsListed(f) == f.prefix = Prefix /\ f.ext \in ListedExts

\* Rank of an extension in string order
ExtRank(ext) ==
  CASE ext = "" -> 0 [] ext = "jpeg" -> 1 [] ext = "jpg" -> 2
    [] ext = "json" -> 3 [] ext = "png" -> 4 [] ext = "txt" -> 5
    [] OTHER -> 6

\* a.localeCompare(b) < 0 for two names with the same prefix
NameLess(a, b) ==
  \/ a.stamp < b.stamp
  \/ a.stamp = b.stamp /\ a.rand < b.rand
  \/ a.stamp = b.stamp /\ a.rand = b.rand /\ ExtRank(a.ext) < ExtRank(b.ext)

\* Variant of SortDesc that sorts oldest first
SortAsc(S) ==
  LET ranked == {<<Cardinality({y \in S : NameLess(y, x)}) + 1, x>> : x \in S}
  IN [i \in 1..Cardinality(S) |-> (CHOOSE p \in ranked : p[1] = i)[2]]

\* sort((a, b) => b.localeCompare(a)): a name is the i-th entry when i-1
\* names come after it in the order
SortDesc(S) ==
  LET ranked == {<<Cardinality({y \in S : NameLess(x, y)}) + 1, x>> : x \in S}
  IN [i \in 1..Cardinality(S) |-> (CHOOSE p \in ranked : p[1] = i)[2]]

\* Variant of getImageHistory that returns the names oldest first
getImageHistoryOldestFirst(s, e) ==
  IF e.listOk THEN SortAsc({f \in s.dir : IsListed(f)}) ELSE <<>>

\* getImageHistory(): readdir, filter, sort; [] when readdir fails
getImageHistory(s, e) ==
  IF e.listOk THEN SortDesc({f \in s.dir : IsListed(f)}) ELSE <<>>

\* Array.prototype.slice(k) for k >= 0
Slice(h, k) == SubSeq(h, k + 1, Len(h))

\* Variant of cleanupOldImages that stops at the first unlink that fails
cleanupStopsAtFailure(s, keepCount, e) ==
  LET listed(history) ==
        IF Len(history) <= keepCount THEN Ret(s)
        ELSE LET rest == Slice(history, keepCount)
                 done == {rest[j] : j \in {i \in 1..Len(rest) :
                            \A k \in 1..i : rest[k] \notin e.unlinkFail}}
             IN Ret([s EXCEPT !.dir = @ \ done])
  IN listed(getImageHistory(s, e))

\* cleanupOldImages(keepCount): unlink every entry past the first keepCount
cleanupOldImages(s, keepCount, e) ==
  LET listed(history) ==
        IF Len(history) <= keepCount THEN Ret(s)
        ELSE LET toDelete == Range(Slice(history, keepCount))
             IN Ret([s EXCEPT !.dir = @ \ (toDelete \ e.unlinkFail)])
  IN listed(getImageHistory(s, e))

----------------------------------------------------------------------------
(* Generation Client: ImageGenerator *)

\* The success variant of the Result Envelope
Success(path) == [success |-> TRUE, filePath |-> <<path>>, error |-> <<>>]

\* Variant of Failure that leaves the error out of the envelope
FailureNoError(code, message, suggestions) ==
  [success |-> FALSE, filePath |-> <<>>, error |-> <<>>]

\* The failure variant of the Result Envelope
Failure(code, message, suggestions) ==
  [success |-> FALSE, filePath |-> <<>>,
   error |-> <<[code |-> code, message |-> message,
                suggestions |-> suggestions]>>]

\* The result of a Generation Client call that returns its envelope
Returned(s, envelope) == [s |-> s, thrown |-> FALSE, env |-> envelope]

\* Variant of initializeOpenAI that builds the client without a key
initializeOpenAIUnchecked(s, e) ==
  LET withOrganization(r2) ==
        IF r2.thrown THEN r2
        ELSE LET c == r2.s.config[1] IN
             Ret([r2.s EXCEPT !.openai =
                    <<[apiKey |-> IF c.apiKey = <<>> THEN <<>> ELSE c.apiKey[1],
                       organization |-> c.organization]>>])
      withApiKey(r1) ==
        IF r1.thrown THEN r1 ELSE withOrganization(getField(r1.s, e))
  IN withApiKey(getField(s, e))

\* initializeOpenAI()
initializeOpenAI(s, e) ==
  LET withOrganization(r2) ==
        IF r2.thrown THEN r2
        ELSE LET c == r2.s.config[1] IN
             IF c.apiKey = <<>>
             THEN Throw(r2.s, <<"OpenAI ", "API key",
                    " not configured. Please run configure-server first.">>)
             ELSE Ret([r2.s EXCEPT !.openai =
                        <<[apiKey |-> c.apiKey[1],
                           organization |-> c.organization]>>])
      withApiKey(r1) ==
        IF r1.thrown THEN r1 ELSE withOrganization(getField(r1.s, e))
  IN withApiKey(getField(s, e))

\* x || d for a string parameter
OrDefault(x, d) == IF x \in {Undef, Empty} THEN d ELSE x

\* validateGenerateParams(params): the defaults, then the checks in order
validateGenerateParams(params) ==
  LET validated == [params EXCEPT
        !.size = OrDefault(@, "1024x1024"),
        !.quality = OrDefault(@, "standard"),
        !.format = OrDefault(@, "png"),
        !.background = OrDefault(@, "auto")]
  IN IF ~Includes(SUPPORTED_SIZES, validated.size)
     THEN [ok |-> FALSE, v |-> validated,
           msg |-> <<"Unsupported size: ", validated.size,
                     ". Supported sizes: ">> \o Join(SUPPORTED_SIZES)]
     ELSE IF ~Includes(SUPPORTED_QUALITIES, validated.quality)
     THEN [ok |-> FALSE, v |-> validated,
           msg |-> <<"Unsupported quality: ", validated.quality,
                     ". Supported qualities: ">> \o Join(SUPPORTED_QUALITIES)]
     ELSE IF ~Includes(SUPPORTED_FORMATS, validated.format)
     THEN [ok |-> FALSE, v |-> validated,
           msg |-> <<"Unsupported format: ", validated.format,
                     ". Supported formats: ">> \o Join(SUPPORTED_FORMATS)]
     ELSE IF ~Includes(SUPPORTED_BACKGROUNDS, validated.background)
     THEN [ok |-> FALSE, v |-> validated,
           msg |-> <<"Unsupported background: ", validated.background,
                     ". Supported backgrounds: ">>
                   \o Join(SUPPORTED_BACKGROUNDS)]
     ELSE IF validated.compression # <<>>
             /\ (validated.compression[1] < 0 \/ validated.compression[1] > 100)
     THEN [ok |-> FALSE, v |-> validated,
           msg |-> <<"Compression must be between 0 and 100">>]
     ELSE [ok |-> TRUE, v |-> validated, msg |-> <<>>]

\* validateStreamParams(params)
validateStreamParams(params) ==
  LET validated == [params EXCEPT
        !.partialImages = IF @ = <<>> \/ @ = <<0>> THEN <<2>> ELSE @,
        !.size = OrDefault(@, "1024x1024")]
  IN IF validated.partialImages[1] < 1 \/ validated.partialImages[1] > 3
     THEN [ok |-> FALSE, v |-> validated,
           msg |-> <<"Partial images must be between 1 and 3">>]
     ELSE IF ~Includes(SUPPORTED_SIZES, validated.size)
     THEN [ok |-> FALSE, v |-> validated,
           msg |-> <<"Unsupported size: ", validated.size,
                     ". Supported sizes: ">> \o Join(SUPPORTED_SIZES)]
     ELSE [ok |-> TRUE, v |-> validated, msg |-> <<>>]

\* openai.images.generate(...): the upstream call and the check of its data;
\* val is imageData.b64_json || ''
imagesGenerate(s, e) ==
  LET s1 == [s EXCEPT !.up = @ + 1] IN
  IF e.up.kind = "error" THEN Throw(s1, e.up.msg) @@ [val |-> <<>>]
  ELSE IF e.up.kind = "nodata"
  THEN Throw(s1, <<"No image data received from OpenAI">>) @@ [val |-> <<>>]
  ELSE Ret(s1) @@ [val |-> e.up.b64]

\* Variant of GenerateFailure that looks for "quota" before "billing"
GenerateFailureQuotaFirst(msg) ==
  IF TextIncludes(msg, "API key")
  THEN Failure("INVALID_API_KEY", msg,
         <<"Configure your OpenAI API key using configure-server",
           "Verify your API key is valid">>)
  ELSE IF TextIncludes(msg, "quota")
  THEN Failure("QUOTA_EXCEEDED", msg,
         <<"Check your API usage limits",
           "Upgrade your OpenAI plan if needed">>)
  ELSE IF TextIncludes(msg, "billing")
  THEN Failure("BILLING_ISSUE", msg,
         <<"Check your OpenAI billing status",
           "Add payment method to your OpenAI account">>)
  ELSE IF TextIncludes(msg, "model")
  THEN Failure("MODEL_ERROR", msg,
         <<"Try using a different model",
           "Check if the model is available">>)
  ELSE IF TextIncludes(msg, "prompt")
  THEN Failure("PROMPT_ERROR", msg,
         <<"Review your prompt for inappropriate content",
           "Try a different prompt">>)
  ELSE Failure("GENERATION_FAILED", msg,
         <<"Check your API key", "Verify your prompt", "Try again later">>)

\* The catch block of generateImage: code and suggestions from the message
GenerateFailure(msg) ==
  IF TextIncludes(msg, "API key")
  THEN Failure("INVALID_API_KEY", msg,
         <<"Configure your OpenAI API key using configure-server",
           "Verify your API key is valid">>)
  ELSE IF TextIncludes(msg, "billing")
  THEN Failure("BILLING_ISSUE", msg,
         <<"Check your OpenAI billing status",
           "Add payment method to your OpenAI account">>)
  ELSE IF TextIncludes(msg, "quota")
  THEN Failure("QUOTA_EXCEEDED", msg,
         <<"Check your API usage limits",
           "Upgrade your OpenAI plan if needed">>)
  ELSE IF TextIncludes(msg, "model")
  THEN Failure("MODEL_ERROR", msg,
         <<"Try using a different model",
           "Check if the model is available">>)
  ELSE IF TextIncludes(msg, "prompt")
  THEN Failure("PROMPT_ERROR", msg,
         <<"Review your prompt for inappropriate content",
           "Try a different prompt">>)
  ELSE Failure("GENERATION_FAILED", msg,
         <<"Check your API key", "Verify your prompt", "Try again later">>)

EditFailure(msg) ==
  Failure("EDIT_FAILED", msg,
    <<"Check your response ID or image ID", "Verify your edit prompt",
      "Try again later">>)

StreamFailure(msg) ==
  Failure("STREAM_FAILED", msg,
    <<"Check your API key", "Verify your prompt", "Try again later">>)

\* The common tail of the three calls: getModel for the metadata, the save
\* of the artifact, updateLastUsed, and the success variant
SaveAndTouch(s, b64, format, e) ==
  LET touched(ru, path) ==
        IF ru.thrown THEN ru ELSE Ret(ru.s) @@ [path |-> path]
      saved(rs) ==
        IF rs.thrown THEN [s |-> rs.s, thrown |-> TRUE, msg |-> rs.msg]
        ELSE touched(updateLastUsed(rs.s, e), rs.val[1])
      withModel(rm) ==
        IF rm.thrown THEN rm
        ELSE saved(saveImageToDesktop(rm.s, b64, format, e))
  IN withModel(getField(s, e))

\* generateImage(params)
generateImage(s, params, e) ==
  LET result(r) ==
        Returned(r.s, IF r.thrown THEN GenerateFailure(r.msg)
                      ELSE Success(r.path))
      called(rc, va) ==
        IF rc.thrown THEN result(rc)
        ELSE IF rc.val = <<>>
        THEN result(Throw(rc.s, <<"No image generated in response">>))
        ELSE result(SaveAndTouch(rc.s, rc.val, va.v.format, e))
      validated(ri, va) ==
        IF ~va.ok THEN result(Throw(ri.s, va.msg))
        ELSE called(imagesGenerate(ri.s, e), va)
      initialized(ri) ==
        IF ri.thrown THEN result(ri)
        ELSE validated(ri, validateGenerateParams(params))
  IN initialized(initializeOpenAI(s, e))

\* editImage(params)
editImage(s, params, e) ==
  LET result(r) ==
        Returned(r.s, IF r.thrown THEN EditFailure(r.msg)
                      ELSE Success(r.path))
      called(rc) ==
        IF rc.thrown THEN result(rc)
        ELSE result(SaveAndTouch(rc.s, rc.val, "png", e))
      initialized(ri) ==
        IF ri.thrown THEN result(ri) ELSE called(imagesGenerate(ri.s, e))
  IN initialized(initializeOpenAI(s, e))

\* streamImage(params)
streamImage(s, params, e) ==
  LET result(r) ==
        Returned(r.s, IF r.thrown THEN StreamFailure(r.msg)
                      ELSE Success(r.path))
      called(rc) ==
        IF rc.thrown THEN result(rc)
        ELSE result(SaveAndTouch(rc.s, rc.val, "png", e))
      validated(ri, va) ==
        IF ~va.ok THEN result(Throw(ri.s, va.msg))
        ELSE called(imagesGenerate(ri.s, e))
      initialized(ri) ==
        IF ri.thrown THEN result(ri)
        ELSE validated(ri, validateStreamParams(params))
  IN initialized(initializeOpenAI(s, e))

----------------------------------------------------------------------------
(* Request Router: MCPImageServer *)

PreviewLength == 10
StartupKeepCount == 50

\* A file path as tokens (the separators belong to the neighbouring tokens)
NameText(f) == <<f.prefix, ToString(f.stamp), ToString(f.rand), f.ext>>

\* The result of a tool handler
Reply(s, text) == [s |-> s, thrown |-> FALSE, text |-> text, isError |-> FALSE]
ErrorReply(s, text) ==
  [s |-> s, thrown |-> FALSE, text |-> text, isError |-> TRUE]

\* Variant of the catch that does not flag the result
RouterCatchUnflagged(s, msg) == Reply(s, <<"Error: ">> \o msg)

\* The catch of the CallTool handler, for an Error thrown by a handler
RouterCatch(s, msg) == ErrorReply(s, <<"Error: ">> \o msg)

\* z.enum(values).optional()
ZodEnum(values, v) ==
  IF v = Undef \/ Includes(values, v) THEN <<>>
  ELSE <<"Invalid enum value. Received ", v>>

\* The prompt schema: min(1), max(4000), not only whitespace
ZodPrompt(v, emptyMessage) ==
  IF v = Undef THEN <<"Required">>
  ELSE IF v = Empty THEN <<emptyMessage>>
  ELSE <<>>

\* The issues of the generate-image schema, in the order of its fields
ZodGenerate(args) ==
  ZodPrompt(args.prompt, "Prompt cannot be empty")
  \o ZodEnum(SUPPORTED_SIZES, args.size)
  \o ZodEnum(SUPPORTED_QUALITIES, args.quality)
  \o ZodEnum(SUPPORTED_FORMATS, args.format)
  \o ZodEnum(SUPPORTED_BACKGROUNDS, args.background)
  \o (IF args.compression # <<>>
         /\ (args.compression[1] < 0 \/ args.compression[1] > 100)
      THEN <<"Compression must be between 0 and 100">> ELSE <<>>)

FailureText(head, envelope) ==
  <<head>> \o envelope.error[1].message \o <<"Suggestions:">>
  \o envelope.error[1].suggestions

\* handleGenerateImage(args)
handleGenerateImage(s, args, e) ==
  IF ZodGenerate(args) # <<>> THEN RouterCatch(s, ZodGenerate(args))
  ELSE LET rendered(r, v) ==
             IF r.env.success
             THEN Reply(r.s,
                    <<"Image generated successfully!", "File: ">>
                    \o NameText(r.env.filePath[1]) \o <<"Path: ">>
                    \o NameText(r.env.filePath[1])
                    \o <<"Size: ", v.size, "Quality: ", v.quality,
                         "Format: ", v.format,
                         "Model: ", r.s.config[1].model,
                         "Original prompt: ", v.prompt>>)
             ELSE ErrorReply(r.s,
                    FailureText("Failed to generate image: ", r.env))
       IN rendered(generateImage(s, args, e), validateGenerateParams(args).v)

\* The issues of the configure-server schema
ZodConfigure(args) ==
  (IF args.organization = Undef THEN <<"Required">>
   ELSE IF args.organization = Empty
   THEN <<"Organization ID is required for image generation">> ELSE <<>>)
  \o ZodEnum(SUPPORTED_MODELS, args.model)

\* handleConfigureServer(args)
handleConfigureServer(s, args, e) ==
  IF ZodConfigure(args) # <<>> THEN RouterCatch(s, ZodConfigure(args))
  ELSE LET failed(r) == ErrorReply(r.s, <<"Failed to configure server: ">>
                                        \o r.msg)
           modelled(r2) ==
             IF r2.thrown THEN failed(r2)
             ELSE Reply(r2.s,
                    <<"Server configured successfully!", "API Key: ">>
                    \o Substring0(args.apiKey, PreviewLength)
                    \o <<"...", "Organization: ", args.organization,
                         "Model: ",
                         IF args.model \in {Undef, Empty}
                         THEN r2.s.config[1].model ELSE args.model,
                         "Configuration status: configured",
                         "You can now use the image generation tools.">>)
           keyed(r1) ==
             IF r1.thrown THEN failed(r1)
             ELSE IF args.model \in {Undef, Empty} THEN modelled(r1)
             ELSE modelled(updateModel(r1.s, args.model, e))
       IN keyed(updateApiKey(s, args.apiKey, args.organization, e))

ZodEdit(args) == ZodPrompt(args.editPrompt, "Edit prompt cannot be empty")

\* handleEditImage(args)
handleEditImage(s, args, e) ==
  IF ZodEdit(args) # <<>> THEN RouterCatch(s, ZodEdit(args))
  ELSE LET rendered(r) ==
             IF r.env.success
             THEN Reply(r.s, <<"Image edited successfully!", "File: ">>
                             \o NameText(r.env.filePath[1]) \o <<"Path: ">>
                             \o NameText(r.env.filePath[1])
                             \o <<"Edit prompt: ", args.editPrompt>>)
             ELSE ErrorReply(r.s, FailureText("Failed to edit image: ", r.env))
       IN rendered(editImage(s, args, e))

ZodStream(args) ==
  ZodPrompt(args.prompt, "Prompt cannot be empty")
  \o (IF args.partialImages # <<>> /\ args.partialImages[1] < 1
      THEN <<"Partial images must be at least 1">> ELSE <<>>)
  \o (IF args.partialImages # <<>> /\ args.partialImages[1] > 3
      THEN <<"Partial images cannot exceed 3">> ELSE <<>>)
  \o ZodEnum(SUPPORTED_SIZES, args.size)

\* handleStreamImage(args)
handleStreamImage(s, args, e) ==
  IF ZodStream(args) # <<>> THEN RouterCatch(s, ZodStream(args))
  ELSE LET rendered(r) ==
             IF r.env.success
             THEN Reply(r.s, <<"Image streamed successfully!", "Final image: ">>
                             \o NameText(r.env.filePath[1])
                             \o <<"Partial images: ", "0",
                                  "Original prompt: ", args.prompt>>)
             ELSE ErrorReply(r.s, FailureText("Failed to stream image: ", r.env))
       IN rendered(streamImage(s, args, e))

\* handleGetConfigStatus(args)
handleGetConfigStatus(s, e) ==
  LET rendered(r) ==
    IF r.thrown THEN RouterCatch(r.s, r.msg)
    ELSE LET st == r.val[1] IN
         Reply(r.s,
           <<"Configuration Status:",
             "Configured: ", IF st.configured THEN "Yes" ELSE "No",
             "Has API Key: ", IF st.hasApiKey THEN "Yes" ELSE "No",
             "Model: ", st.model,
             "Organization: ",
             IF st.organization \in {Undef, Empty} THEN "Not set"
             ELSE st.organization,
             "Last Used: ",
             IF st.lastUsed = <<>> THEN "Never" ELSE ToString(st.lastUsed[1]),
             IF st.configured THEN "Ready to generate images!"
             ELSE "Please configure the server with your OpenAI API key first.">>)
  IN rendered(getConfigStatus(s, e))

\* handleListSupportedModels(args)
handleListSupportedModels(s, e) ==
  LET rendered(r) ==
        IF r.thrown THEN RouterCatch(r.s, r.msg)
        ELSE Reply(r.s, <<"Supported Models:">> \o SUPPORTED_MODELS
                        \o <<"Current Model: ", r.s.config[1].model,
                             "Image Generation Model: gpt-image-1">>)
  IN rendered(getField(s, e))

\* Variant of run that fails when the desktop is not accessible
runStrict(s, e) ==
  LET checked(r1) ==
        IF r1.thrown THEN Throw(r1.s, r1.msg)
        ELSE Ret(cleanupOldImages(checkDiskSpace(r1.s, e).s,
                                  StartupKeepCount, e).s)
      reported(r0) ==
        IF r0.thrown THEN Throw(r0.s, r0.msg)
        ELSE checked(ensureDesktopExists(r0.s, e))
  IN reported(getConfigStatus(s, e))

\* run(): the status, the checks of the desktop (their failure is a warning),
\* then the connection of the transport
run(s, e) ==
  LET checked(r1) ==
        IF r1.thrown THEN Ret(r1.s)
        ELSE Ret(cleanupOldImages(checkDiskSpace(r1.s, e).s,
                                  StartupKeepCount, e).s)
      reported(r0) ==
        IF r0.thrown THEN Throw(r0.s, r0.msg)
        ELSE checked(ensureDesktopExists(r0.s, e))
  IN reported(getConfigStatus(s, e))

----------------------------------------------------------------------------
(* Inputs and environment *)

\* Records a credential file of an earlier session can hold
StoredRecord(apiKey, organization, lastUsed) ==
  [createDefaultConfig(-1) EXCEPT !.apiKey = apiKey,
                                  !.organization = organization,
                                  !.lastUsed = lastUsed]

FileAbsent == [kind |-> "absent", rec |-> <<>>]
FileCorrupt == [kind |-> "corrupt", rec |-> <<>>]
FileNull == [kind |-> "null", rec |-> <<>>]
FileFresh == [kind |-> "json", rec |-> <<StoredRecord(<<>>, Undef, <<>>)>>]
FileKeyed ==
  [kind |-> "json", rec |-> <<StoredRecord(<<KeyShort>>, "org-1", <<-1>>)>>]

\* Artifacts of earlier sessions, stamped -n .. -1
OldArtifacts(n) == {FileName(Prefix, -i, 1, "png") : i \in 1..n}

\* Files the user put into the directory
UserNotes == FileName("notes", 0, 0, "txt")
UserPhoto == FileName(Prefix, -60, 0, "jpeg")
OldSidecar == FileName(Prefix, -2, 1, "json")
\* openai-image-vacation.png: a letter sorts after every digit of a timestamp
LaterStamp == 99
UserLater == FileName(Prefix, LaterStamp, 0, "png")

DirEmpty == {}
DirMixed == OldArtifacts(2) \cup {UserNotes, UserPhoto, OldSidecar, TestFile}
DirFull == OldArtifacts(StartupKeepCount)
DirLater == OldArtifacts(1) \cup {UserLater}

\* The stores a server process can find at its start
InitialStores ==
  ({FileAbsent, FileCorrupt, FileNull, FileFresh, FileKeyed}
     \X {DirEmpty, DirMixed})
  \cup ({FileKeyed} \X {DirFull})

\* The stores of a server whose output directory is empty
RouterStores == {FileAbsent, FileFresh, FileKeyed} \X {DirEmpty}

\* The credential files two interleaved updates can find
RaceStores == {FileAbsent, FileCorrupt, FileFresh, FileKeyed} \X {DirEmpty}

\* The updates that are interleaved: each sets fields of its own
UpdateRequest(op, apiKey, organization, model) ==
  [op |-> op, apiKey |-> apiKey, organization |-> organization,
   model |-> model, stamp |-> 0]
UpdateRequests ==
  { UpdateRequest("updateApiKey", KeyLong, "org-2", Undef),
    UpdateRequest("updateModel", <<>>, Undef, "gpt-4o"),
    UpdateRequest("updateLastUsed", <<>>, Undef, Undef) }

\* The stores a holder of the Generation Client can find
ClientStores ==
  {FileAbsent, FileCorrupt, FileNull, FileFresh, FileKeyed}
    \X {DirEmpty, DirMixed}

\* The stores a holder of the Output Store can find
OutputStores == {FileKeyed} \X {DirEmpty, DirMixed}

\* The directories a write followed by a listing can find
ListingStores == {FileKeyed} \X {DirEmpty, DirMixed, DirLater}

\* The stores a holder of the Credential Store can find
CredentialStores ==
  {FileAbsent, FileCorrupt, FileNull, FileFresh, FileKeyed} \X {DirEmpty}

\* Arguments of updateApiKey and updateModel
Organizations == {"org-1", Empty, Undef}
Models == {"gpt-4o", "gpt-5", Empty}

Prompts == {"a cat"}

GenerateParamsOf(size, quality, format, background, compression) ==
  [prompt |-> "a cat", size |-> size, quality |-> quality, format |-> format,
   background |-> background, compression |-> compression]

GenerateParams ==
  { GenerateParamsOf(Undef, Undef, Undef, Undef, <<>>),
    GenerateParamsOf(Undef, "auto", Undef, Undef, <<>>),
    GenerateParamsOf("1792x1024", "high", "jpeg", "opaque", <<80>>),
    GenerateParamsOf("1024x1792", "low", "webp", "transparent", <<0>>),
    GenerateParamsOf("1024x1024", "medium", "png", "auto", <<100>>),
    GenerateParamsOf("512x512", "auto", Undef, Undef, <<>>),
    GenerateParamsOf(Empty, "auto", Undef, Undef, <<>>),
    GenerateParamsOf(Undef, "ultra", Undef, Undef, <<>>),
    GenerateParamsOf(Undef, "auto", "gif", Undef, <<>>),
    GenerateParamsOf(Undef, Undef, "gif", Undef, <<>>),
    GenerateParamsOf(Undef, "auto", Undef, "blue", <<>>),
    GenerateParamsOf(Undef, "auto", Undef, Undef, <<101>>),
    GenerateParamsOf(Undef, "auto", Undef, Undef, <<-1>>),
    GenerateParamsOf("prompt", "ultra", "gif", "blue", <<101>>) }

EditParams ==
  { [editPrompt |-> "make it blue", previousResponseId |-> id, imageId |-> im]
      : id \in {Undef, "resp-1"}, im \in {Undef, "img-1"} }

StreamParams ==
  { [prompt |-> "a cat", partialImages |-> n, size |-> sz]
      : n \in {<<>>, <<0>>, <<1>>, <<3>>, <<4>>}, sz \in {Undef} }
  \cup { [prompt |-> "a cat", partialImages |-> <<>>, size |-> sz]
           : sz \in {"1024x1792", "512x512"} }

ConfigureArgs ==
  { [apiKey |-> k, organization |-> o, model |-> m]
      : k \in KeyInputs, o \in {"org-1", Empty}, m \in {Undef, "gpt-4o", "gpt-5"} }

\* Outcomes of the upstream call
Upstream(kind, msg, b64) == [kind |-> kind, msg |-> msg, b64 |-> b64]
UpstreamOutcomes ==
  { Upstream("error", <<"Network timeout">>, <<>>),
    Upstream("error", <<"You exceeded your current ", "quota">>, <<>>),
    Upstream("nodata", <<>>, <<>>),
    Upstream("data", <<>>, <<>>),
    Upstream("data", <<>>, <<"=">>),
    Upstream("data", <<>>, <<"A", "A">>) }

\* Every call ends at its first failed write of the credential file, so an
\* oracle says which write, if any, is the one that fails.
WriteOracle(f) == [k \in 1..MaxCfgWrites |-> k # f]
FirstFailures == {WriteOracle(f) : f \in 0..MaxCfgWrites}

Payloads ==
  UNION {[1..n -> B64Chars] : n \in 0..MaxPayloadLen}

\* The environment in which nothing fails
CalmEnv ==
  [readOk |-> TRUE, writeOk |-> WriteOracle(0),
   up |-> Upstream("data", <<>>, <<"A", "A">>), artOk |-> TRUE, rand |-> 1,
   accessOk |-> TRUE, probeWriteOk |-> TRUE, unlinkFail |-> {},
   listOk |-> TRUE]

\* The environments of a call that uses the credential store
StoreEnvs ==
  { [CalmEnv EXCEPT !.readOk = r, !.writeOk = w]
      : r \in (IF config = <<>> THEN BOOLEAN ELSE {TRUE}), w \in FirstFailures }

\* The environments of a generation call
GenerationEnvs ==
  { [e EXCEPT !.up = u, !.artOk = a, !.rand = n]
      : e \in StoreEnvs, u \in UpstreamOutcomes, a \in BOOLEAN,
        n \in 1..MaxRand }

\* Files whose unlink may fail: the sentinel and the two oldest listed files
Oldest(S) == IF S = {} THEN {}
             ELSE {CHOOSE x \in S : \A y \in S \ {x} : NameLess(x, y)}
UnlinkFailures ==
  LET L == {f \in dir : IsListed(f)}
      o1 == Oldest(L)
      o2 == Oldest(L \ o1)
  IN SUBSET ({TestFile} \cup o1 \cup o2)

----------------------------------------------------------------------------
(* The state machine *)

Idle ==
  [op |-> "none", args |-> <<>>, threw |-> FALSE, env |-> <<>>,
   text |-> <<>>, isError |-> FALSE, val |-> <<>>, msg |-> <<>>, keep |-> 0,
   reads |-> 0, wtry |-> 0, wdone |-> 0, up |-> 0, atry |-> 0, art |-> 0,
   bytes |-> 0, oracle |-> CalmEnv, preConfig |-> <<>>, preKey |-> FALSE,
   added |-> {}, removed |-> {}]

\* No update operation is in flight and no object has been created
TaskIds == 1..MaxTasks
IdleTask == [pc |-> "idle", ref |-> 0, snap |-> <<>>, req |-> <<>>]
NoTasks ==
  [heap |-> <<>>, cache |-> 0, overlap |-> FALSE, used |-> {}, done |-> {},
   t |-> [i \in TaskIds |-> IdleTask]]

InitWith(stores) ==
  /\ \E st \in stores :
       /\ file = st[1]
       /\ dir = st[2]
       /\ written = {f \in st[2] : f \in OldArtifacts(StartupKeepCount)}
  /\ config = <<>>
  /\ openai = <<>>
  /\ started = FALSE
  /\ now = 0
  /\ calls = 0
  /\ last = Idle
  /\ tasks = NoTasks

\* The state after new MCPImageServer()
Init == InitWith(InitialStores)

\* The state a call starts from, with its I/O counters at zero
CallState ==
  [config |-> config, file |-> file, dir |-> dir, written |-> written,
   openai |-> openai, now |-> now,
   reads |-> 0, wtry |-> 0, wdone |-> 0, up |-> 0, atry |-> 0, art |-> 0,
   bytes |-> 0]

\* An API key is configured: in the cache, or else in the file to be loaded
KeyConfigured ==
  IF config # <<>> THEN config[1].apiKey # <<>>
  ELSE file.kind = "json" /\ file.rec[1].apiKey # <<>>

\* The record of a call: what it was given and what it did
Record(op, args, e, s, out) ==
  out @@ [op |-> op, args |-> args, reads |-> s.reads, wtry |-> s.wtry,
          wdone |-> s.wdone, up |-> s.up, atry |-> s.atry, art |-> s.art,
          bytes |-> s.bytes, oracle |-> e, preConfig |-> config,
          preKey |-> KeyConfigured,
          added |-> s.written \ written, removed |-> dir \ s.dir] @@ Idle

Commit(s, l) ==
  /\ config' = s.config
  /\ file' = s.file
  /\ dir' = s.dir
  /\ written' = s.written
  /\ openai' = s.openai
  /\ last' = l
  /\ calls' = calls + 1
  /\ UNCHANGED <<now, tasks>>

\* The session has room for one more artifact
CanWrite == Cardinality({f \in written : f.stamp >= 0}) < MaxWrites

\* No call is in progress: the previous result has been taken
Ready == last.op = "none" /\ calls < MaxCalls

\* The oracle answers only what the call asked: an answer that was not
\* consulted is the calm one, so that one behaviour of the environment is
\* one oracle.
Consulted(e, s) ==
  /\ s.reads = 0 => e.readOk
  /\ \A k \in 1..MaxCfgWrites : ~e.writeOk[k] => s.wtry = k
  /\ s.up = 0 => e.up = CalmEnv.up
  /\ s.atry = 0 => e.artOk
  /\ (s.atry = 0 \/ ~e.artOk) => e.rand = 1

\* The caller takes the result of the call
Return ==
  /\ last.op # "none"
  /\ last' = Idle
  /\ UNCHANGED <<config, file, dir, openai, started, now, written, calls,
                 tasks>>


\* The clock advances
Tick ==
  /\ Ready
  /\ now < MaxClock
  /\ now' = now + 1
  /\ last' = Idle
  /\ UNCHANGED <<config, file, dir, openai, started, written, calls, tasks>>

\* MCPImageServer.run()
Run ==
  /\ Ready /\ ~started
  /\ \E e0 \in StoreEnvs, a \in BOOLEAN, pw \in BOOLEAN, l \in BOOLEAN,
        u \in UnlinkFailures :
       LET e == [e0 EXCEPT !.accessOk = a, !.probeWriteOk = pw,
                           !.listOk = l, !.unlinkFail = u]
       IN \E r \in {run(CallState, e)} :
            /\ Commit(r.s, Record("run", <<>>, e, r.s, [threw |-> r.thrown]))
            /\ started' = ~r.thrown

\* ImageGenerator.generateImage(params), called by any holder of the client
GenerateImage ==
  /\ Ready /\ CanWrite
  /\ \E params \in GenerateParams, e \in GenerationEnvs :
       \E r \in {generateImage(CallState, params, e)} :
          /\ Consulted(e, r.s)
          /\ Commit(r.s, Record("generateImage", params, e, r.s,
                                [threw |-> r.thrown, env |-> <<r.env>>]))
          /\ UNCHANGED started

\* ImageGenerator.editImage(params)
EditImage ==
  /\ Ready /\ CanWrite
  /\ \E params \in EditParams, e \in GenerationEnvs :
       \E r \in {editImage(CallState, params, e)} :
          /\ Consulted(e, r.s)
          /\ Commit(r.s, Record("editImage", params, e, r.s,
                                [threw |-> r.thrown, env |-> <<r.env>>]))
          /\ UNCHANGED started

\* ImageGenerator.streamImage(params)
StreamImage ==
  /\ Ready /\ CanWrite
  /\ \E params \in StreamParams, e \in GenerationEnvs :
       \E r \in {streamImage(CallState, params, e)} :
          /\ Consulted(e, r.s)
          /\ Commit(r.s, Record("streamImage", params, e, r.s,
                                [threw |-> r.thrown, env |-> <<r.env>>]))
          /\ UNCHANGED started

\* The tool calls of a connected server
CallGenerateImage ==
  /\ Ready /\ started /\ CanWrite
  /\ \E args \in GenerateParams, e \in GenerationEnvs :
       \E r \in {handleGenerateImage(CallState, args, e)} :
          /\ Consulted(e, r.s)
          /\ Commit(r.s, Record("generate-image", args, e, r.s,
                                [text |-> r.text, isError |-> r.isError]))
          /\ UNCHANGED started

CallEditImage ==
  /\ Ready /\ started /\ CanWrite
  /\ \E args \in EditParams, e \in GenerationEnvs :
       \E r \in {handleEditImage(CallState, args, e)} :
          /\ Consulted(e, r.s)
          /\ Commit(r.s, Record("edit-image", args, e, r.s,
                                [text |-> r.text, isError |-> r.isError]))
          /\ UNCHANGED started

CallStreamImage ==
  /\ Ready /\ started /\ CanWrite
  /\ \E args \in StreamParams, e \in GenerationEnvs :
       \E r \in {handleStreamImage(CallState, args, e)} :
          /\ Consulted(e, r.s)
          /\ Commit(r.s, Record("stream-image", args, e, r.s,
                                [text |-> r.text, isError |-> r.isError]))
          /\ UNCHANGED started

CallConfigureServer ==
  /\ Ready /\ started
  /\ \E args \in ConfigureArgs, e \in StoreEnvs :
       \E r \in {handleConfigureServer(CallState, args, e)} :
          /\ Consulted(e, r.s)
          /\ Commit(r.s, Record("configure-server", args, e, r.s,
                                [text |-> r.text, isError |-> r.isError]))
          /\ UNCHANGED started

CallGetConfigStatus ==
  /\ Ready /\ started
  /\ \E e \in StoreEnvs :
       \E r \in {handleGetConfigStatus(CallState, e)} :
          /\ Consulted(e, r.s)
          /\ Commit(r.s, Record("get-config-status", <<>>, e, r.s,
                                [text |-> r.text, isError |-> r.isError]))
          /\ UNCHANGED started

CallListSupportedModels ==
  /\ Ready /\ started
  /\ \E e \in StoreEnvs :
       \E r \in {handleListSupportedModels(CallState, e)} :
          /\ Consulted(e, r.s)
          /\ Commit(r.s, Record("list-supported-models", <<>>, e, r.s,
                                [text |-> r.text, isError |-> r.isError]))
          /\ UNCHANGED started

CallUnknownTool ==
  /\ Ready /\ started
  /\ \E name \in {"delete-image"} :
       \E r \in {RouterCatch(CallState, <<"Unknown tool: ", name>>)} :
          /\ Commit(r.s, Record(name, <<>>, CalmEnv, r.s,
                                [text |-> r.text, isError |-> r.isError]))
          /\ UNCHANGED started

\* FileManager.saveImageToDesktop(base64Data, format, metadata)
SaveImageToDesktop ==
  /\ Ready /\ CanWrite
  /\ \E payload \in Payloads, format \in Range(SUPPORTED_FORMATS),
        a \in BOOLEAN, n \in 1..MaxRand :
       LET e == [CalmEnv EXCEPT !.artOk = a, !.rand = n]
           r == saveImageToDesktop(CallState, payload, format, e)
       IN /\ Consulted(e, r.s)
          /\ Commit(r.s, Record("saveImageToDesktop",
                                [payload |-> payload, format |-> format],
                                e, r.s,
                                [threw |-> r.thrown, val |-> r.val]))
          /\ UNCHANGED started

\* FileManager.getImageHistory()
GetImageHistory ==
  /\ Ready
  /\ \E l \in BOOLEAN :
    LET e == [CalmEnv EXCEPT !.listOk = l]
        h == getImageHistory(CallState, e)
    IN /\ Commit(CallState, Record("getImageHistory", <<>>, e, CallState,
                                   [val |-> h]))
       /\ UNCHANGED started

\* FileManager.cleanupOldImages(keepCount)
CleanupOldImages ==
  /\ Ready
  /\ \E keepCount \in 0..MaxKeep, l \in BOOLEAN, u \in UnlinkFailures :
    LET e == [CalmEnv EXCEPT !.listOk = l, !.unlinkFail = u]
        r == cleanupOldImages(CallState, keepCount, e)
    IN /\ Commit(r.s, Record("cleanupOldImages", <<>>, e, r.s,
                             [threw |-> r.thrown, keep |-> keepCount]))
       /\ UNCHANGED started

\* FileManager.checkDiskSpace()
CheckDiskSpace ==
  /\ Ready
  /\ \E pw \in BOOLEAN, u \in SUBSET {TestFile} :
    LET e == [CalmEnv EXCEPT !.probeWriteOk = pw, !.unlinkFail = u]
        r == checkDiskSpace(CallState, e)
    IN /\ Commit(r.s, Record("checkDiskSpace", <<>>, e, r.s, [threw |-> r.thrown]))
       /\ UNCHANGED started

\* ConfigManager.loadConfig()
LoadConfig ==
  /\ Ready
  /\ \E e \in StoreEnvs :
       \E r \in {loadConfig(CallState, e)} :
         /\ Consulted(e, r.s)
         /\ Commit(r.s, Record("loadConfig", <<>>, e, r.s,
                               [threw |-> r.thrown, msg |-> r.msg,
                                val |-> r.s.config]))
         /\ UNCHANGED started

\* ConfigManager.saveConfig(config), given the cached record
SaveConfig ==
  /\ Ready /\ config # <<>>
  /\ \E e \in StoreEnvs :
       \E r \in {saveConfig(CallState, e)} :
         /\ Consulted(e, r.s)
         /\ Commit(r.s, Record("saveConfig", <<>>, e, r.s,
                               [threw |-> r.thrown, msg |-> r.msg]))
         /\ UNCHANGED started

\* ConfigManager.getConfigStatus()
GetConfigStatus ==
  /\ Ready
  /\ \E e \in StoreEnvs :
       \E r \in {getConfigStatus(CallState, e)} :
         /\ Consulted(e, r.s)
         /\ Commit(r.s, Record("getConfigStatus", <<>>, e, r.s,
                               [threw |-> r.thrown, msg |-> r.msg,
                                val |-> r.val]))
         /\ UNCHANGED started

\* ConfigManager.updateApiKey(apiKey, organization)
UpdateApiKey ==
  /\ Ready
  /\ \E apiKey \in KeyInputs, organization \in Organizations,
        e \in StoreEnvs :
       \E r \in {updateApiKey(CallState, apiKey, organization, e)} :
         /\ Consulted(e, r.s)
         /\ Commit(r.s, Record("updateApiKey",
                               [apiKey |-> apiKey,
                                organization |-> organization], e, r.s,
                               [threw |-> r.thrown, msg |-> r.msg]))
         /\ UNCHANGED started

\* ConfigManager.updateModel(model)
UpdateModel ==
  /\ Ready
  /\ \E model \in Models, e \in StoreEnvs :
       \E r \in {updateModel(CallState, model, e)} :
         /\ Consulted(e, r.s)
         /\ Commit(r.s, Record("updateModel", [model |-> model], e, r.s,
                               [threw |-> r.thrown, msg |-> r.msg]))
         /\ UNCHANGED started

\* ConfigManager.updateLastUsed()
UpdateLastUsed ==
  /\ Ready
  /\ \E e \in StoreEnvs :
       \E r \in {updateLastUsed(CallState, e)} :
         /\ Consulted(e, r.s)
         /\ Commit(r.s, Record("updateLastUsed", <<>>, e, r.s,
                               [threw |-> r.thrown, msg |-> r.msg]))
         /\ UNCHANGED started

\* The server process: run(), then the tool calls
Next ==
  \/ Tick
  \/ Return
  \/ Run
  \/ CallGenerateImage
  \/ CallEditImage
  \/ CallStreamImage
  \/ CallConfigureServer
  \/ CallGetConfigStatus
  \/ CallListSupportedModels
  \/ CallUnknownTool

Spec == Init /\ [][Next]_vars

\* The Generation Client, called directly
InitClient == InitWith(ClientStores)

NextClient ==
  \/ Tick
  \/ Return
  \/ GenerateImage
  \/ EditImage
  \/ StreamImage

SpecClient == InitClient /\ [][NextClient]_vars

\* The Output Store, called directly
InitOutput == InitWith(OutputStores)

NextOutput ==
  \/ Tick
  \/ Return
  \/ SaveImageToDesktop
  \/ GetImageHistory
  \/ CleanupOldImages
  \/ CheckDiskSpace

SpecOutput == InitOutput /\ [][NextOutput]_vars

\* The Output Store, written to and listed
InitListing == InitWith(ListingStores)

NextListing ==
  \/ Tick
  \/ Return
  \/ SaveImageToDesktop
  \/ GetImageHistory

SpecListing == InitListing /\ [][NextListing]_vars

\* The server process over an empty output directory, within one reading
\* of the clock
InitRouter == InitWith(RouterStores)

NextRouter ==
  \/ Return
  \/ Run
  \/ CallGenerateImage
  \/ CallEditImage
  \/ CallStreamImage
  \/ CallConfigureServer
  \/ CallGetConfigStatus
  \/ CallListSupportedModels
  \/ CallUnknownTool

SpecRouter == InitRouter /\ [][NextRouter]_vars

\* The start of the server process
NextStartup ==
  \/ Tick
  \/ Return
  \/ Run

SpecStartup == Init /\ [][NextStartup]_vars

\* The catch block of generateImage, given the message of the caught Error
ErrorWords == {"API key", "billing", "quota", "model", "prompt", "timeout"}
ErrorTexts == UNION {[1..n -> ErrorWords] : n \in 0..MaxWords}

InitClassify ==
  /\ config = <<>>
  /\ file = FileAbsent
  /\ dir = {}
  /\ openai = <<>>
  /\ started = FALSE
  /\ now = 0
  /\ written = {}
  /\ calls = 0
  /\ tasks = NoTasks
  /\ \E m \in ErrorTexts : last = [Idle EXCEPT !.op = "caught", !.msg = m]

Classify ==
  /\ last.op = "caught"
  /\ last' = [last EXCEPT !.op = "classified",
                          !.env = <<GenerateFailure(last.msg)>>]
  /\ UNCHANGED <<config, file, dir, openai, started, now, written, calls,
                 tasks>>

NextClassify == Classify

SpecClassify == InitClassify /\ [][NextClassify]_vars

\* The Credential Store, called directly
InitStore == InitWith(CredentialStores)

NextStore ==
  \/ Tick
  \/ Return
  \/ LoadConfig
  \/ SaveConfig
  \/ GetConfigStatus
  \/ UpdateApiKey
  \/ UpdateModel
  \/ UpdateLastUsed

SpecStore == InitStore /\ [][NextStore]_vars

\* The Credential Store under interleaved updates.  A step is what runs
\* between two completions of file I/O: a continuation of an async method
\* runs without interruption up to its next readFile or writeFile.

\* The object this.config refers to, as a record
Cached(tk) == IF tk.cache = 0 THEN <<>> ELSE <<tk.heap[tk.cache]>>

\* Variant of the assignments that sets no field
applyNoUpdate(c, m) == c

\* config.apiKey = ...; config.organization = ... / config.model = ... /
\* config.lastUsed = ...
applyUpdate(c, m) ==
  CASE m.op = "updateApiKey" ->
         [c EXCEPT !.apiKey = <<m.apiKey>>, !.organization = m.organization]
    [] m.op = "updateModel" -> [c EXCEPT !.model = m.model]
    [] m.op = "updateLastUsed" -> [c EXCEPT !.lastUsed = <<m.stamp>>]

\* After loadConfig returned the object ref to update i: the fields are
\* set on the object, saveConfig stamps updatedAt on it, serialises it and
\* starts the write of the file.
StartSave(tk, i, ref, req) ==
  LET m == [req EXCEPT !.stamp = now]
      c == [applyUpdate(tk.heap[ref], m) EXCEPT !.updatedAt = now]
  IN [tk EXCEPT !.heap[ref] = c,
                !.t[i] = [pc |-> "writing", ref |-> ref, snap |-> <<c>>,
                          req |-> <<m>>]]

Busy(tk, i) == tk.t[i].pc \notin {"idle", "done"}

StepTo(tk, f) ==
  /\ tasks' = tk
  /\ config' = Cached(tk)
  /\ file' = f
  /\ UNCHANGED <<dir, openai, started, now, written, last>>

\* updateApiKey / updateModel / updateLastUsed is called with valid
\* arguments: loadConfig returns the cached object at once, or starts to
\* read the file.
BeginUpdate ==
  /\ Ready
  /\ calls' = calls + 1
  /\ \E i \in TaskIds, req \in UpdateRequests :
       /\ ~Busy(tasks, i)
       /\ req.op \notin tasks.used
       /\ \E tk \in {[tasks EXCEPT
                         !.used = @ \cup {req.op},
                         !.overlap = @ \/ \E j \in TaskIds \ {i} :
                                              Busy(tasks, j)]} :
            IF tk.cache # 0
            THEN StepTo(StartSave(tk, i, tk.cache, req), file)
            ELSE StepTo([tk EXCEPT !.t[i] = [pc |-> "reading", ref |-> 0,
                                             snap |-> <<>>,
                                             req |-> <<req>>]], file)

\* readFile completes: the parsed record, or else a default record, is a
\* new object and this.config refers to it; a default record is saved
\* before loadConfig returns.
ReadDone ==
  /\ UNCHANGED calls
  /\ \E i \in TaskIds :
       /\ tasks.t[i].pc = "reading"
       /\ \E ref \in {Len(tasks.heap) + 1} :
            IF file.kind = "json"
            THEN \E tk \in {[tasks EXCEPT !.heap = Append(@, file.rec[1]),
                                           !.cache = ref]} :
                   StepTo(StartSave(tk, i, ref, tasks.t[i].req[1]), file)
            ELSE \E c \in {createDefaultConfig(now)} :
                   StepTo([tasks EXCEPT !.heap = Append(@, c),
                                        !.cache = ref,
                                        !.t[i].pc = "creating",
                                        !.t[i].ref = ref,
                                        !.t[i].snap = <<c>>], file)

\* writeFile of the default record completes: saveConfig assigns
\* this.config, loadConfig returns and the update goes on.
DefaultWriteDone ==
  /\ UNCHANGED calls
  /\ \E i \in TaskIds :
       /\ tasks.t[i].pc = "creating"
       /\ \E tk \in {[tasks EXCEPT !.cache = tasks.t[i].ref]} :
            StepTo(StartSave(tk, i, tasks.t[i].ref, tasks.t[i].req[1]),
                   [kind |-> "json", rec |-> tasks.t[i].snap])

\* writeFile of the update completes: the file holds what was serialised,
\* saveConfig assigns this.config and the update returns.
WriteDone ==
  /\ UNCHANGED calls
  /\ \E i \in TaskIds :
       /\ tasks.t[i].pc = "writing"
       /\ StepTo([tasks EXCEPT !.cache = tasks.t[i].ref,
                               !.done = @ \cup {tasks.t[i].req[1]},
                               !.t[i].pc = "done"],
                 [kind |-> "json", rec |-> tasks.t[i].snap])

InitRace == InitWith(RaceStores)

NextRace ==
  \/ Tick
  \/ BeginUpdate
  \/ ReadDone
  \/ DefaultWriteDone
  \/ WriteDone

SpecRace == InitRace /\ [][NextRace]_vars

TypeOK ==
  /\ started \in BOOLEAN
  /\ now \in 0..MaxClock
  /\ Len(config) <= 1
  /\ Len(openai) <= 1
  /\ file.kind \in {"absent", "corrupt", "null", "json"}
  /\ \A f \in written : IsListed(f)
  /\ calls \in 0..MaxCalls

----------------------------------------------------------------------------
(* Vocabulary of the properties *)

GenerationOps == {"generateImage", "editImage", "streamImage"}

\* The envelope the last Generation Client call returned
Envelope == last.env[1]

\* A parameter of a generate call is supplied and not in its supported set
RejectedFields(p) ==
  {f \in {"size", "quality", "format", "background"} :
     /\ p[f] # Undef
     /\ ~Includes(CASE f = "size" -> SUPPORTED_SIZES
                    [] f = "quality" -> SUPPORTED_QUALITIES
                    [] f = "format" -> SUPPORTED_FORMATS
                    [] OTHER -> SUPPORTED_BACKGROUNDS, p[f])}
  \cup (IF p.compression # <<>>
           /\ (p.compression[1] < 0 \/ p.compression[1] > 100)
        THEN {"compression"} ELSE {})

\* The field an error message names
NamedField(msg) ==
  CASE msg[1] = "Unsupported size: " -> "size"
    [] msg[1] = "Unsupported quality: " -> "quality"
    [] msg[1] = "Unsupported format: " -> "format"
    [] msg[1] = "Unsupported background: " -> "background"
    [] msg[1] = "Compression must be between 0 and 100" -> "compression"
    [] OTHER -> "none"

\* Nothing the call consulted in its environment failed
Calm == last.oracle = CalmEnv

\* A name that follows the naming convention of the Output Store
ArtifactName(f) ==
  f.prefix = "openai-image-" /\ f.ext \in {"png", "jpg", "jpeg", "webp"}

\* The directory as the last call found it (a prune adds no file)
DirBefore == dir \cup last.removed

----------------------------------------------------------------------------
(* Properties *)

\* C1: with an API key configured and nothing failing in the environment, a
\* generate call whose size, quality, format, background and compression are
\* each omitted or supported returns the success variant; in particular the
\* call that supplies only a prompt does.
C1_DefaultsAccepted ==
  (/\ last.op = "generateImage"
   /\ last.preKey
   /\ Calm
   /\ RejectedFields(last.args) = {})
  => Envelope.success

\* C2: the text a tool call returns holds no part of the configured API key.
C2_NoKeyInText ==
  (last.text # <<>> /\ config # <<>> /\ config[1].apiKey # <<>>)
  => \A i \in 1..Len(config[1].apiKey[1]) :
       ~TextIncludes(last.text, config[1].apiKey[1][i])

\* C3: a generate, edit or stream call never throws and returns an envelope
\* with exactly one variant: success with a path and no error, or failure
\* with an error (code, message, suggestions) and no path.
C3_OneVariant ==
  last.op \in GenerationOps =>
    /\ ~last.threw
    /\ Len(last.env) = 1
    /\ \/ /\ Envelope.success
          /\ Len(Envelope.filePath) = 1
          /\ Envelope.error = <<>>
       \/ /\ ~Envelope.success
          /\ Envelope.filePath = <<>>
          /\ Len(Envelope.error) = 1
          /\ Envelope.error[1].code # ""
          /\ Envelope.error[1].message # <<>>
          /\ Envelope.error[1].suggestions # <<>>

\* C3 witness: a generate call failed on the save of the credential record,
\* after the upstream call and the write of the artifact.
C3_Witness ==
  /\ last.op = "generateImage"
  /\ ~Envelope.success
  /\ last.up = 1 /\ last.art = 1
  /\ last.wtry > last.wdone

\* C4: lastUsed is set by a generate, edit or stream call if and only if the
\* call returns the success variant: a success sets it to the current time
\* and persists it, a failure leaves the lastUsed reported by the status as
\* it was before the call.
C4_LastUsedIffSuccess ==
  (last.op \in GenerationOps /\ last.preConfig # <<>> /\ config # <<>>) =>
    /\ Envelope.success =>
         /\ config[1].lastUsed = <<now>>
         /\ file.kind = "json" /\ file.rec[1].lastUsed = <<now>>
    /\ ~Envelope.success =>
         config[1].lastUsed = last.preConfig[1].lastUsed

\* C5: a generate or stream call whose parameters fail validation makes no
\* upstream call, writes no artifact and neither reads nor writes the
\* credential file.
C5_ValidationBeforeIO ==
  (\/ last.op = "generateImage" /\ ~validateGenerateParams(last.args).ok
   \/ last.op = "streamImage" /\ ~validateStreamParams(last.args).ok)
  => /\ last.up = 0
     /\ last.atry = 0
     /\ last.reads = 0
     /\ last.wtry = 0

\* C6: a generate call with a size, quality, format or background outside
\* its supported set, or a compression outside 0..100, returns the failure
\* variant, and the message names a rejected field (API key configured).
C6_RejectedFieldNamed ==
  (/\ last.op = "generateImage"
   /\ last.preKey
   /\ Calm
   /\ RejectedFields(last.args) # {})
  => /\ ~Envelope.success
     /\ NamedField(Envelope.error[1].message) \in RejectedFields(last.args)

\* C7: once the server has started, the output directory holds at most 50
\* artifacts.
C7_AtMostFifty ==
  started => Cardinality({f \in dir : ArtifactName(f)}) <= 50

\* C8: a prune with keepCount N of a directory with M artifacts, the listing
\* and every deletion succeeding: for M > N it deletes exactly M-N artifacts,
\* none of them newer than an artifact it keeps; for M <= N it deletes nothing.
C8_PruneOldest ==
  (last.op = "cleanupOldImages" /\ Calm) =>
    LET L == {f \in DirBefore : ArtifactName(f)}
        M == Cardinality(L)
        N == last.keep
    IN IF M > N
       THEN /\ last.removed \subseteq L
            /\ Cardinality(last.removed) = M - N
            /\ dir = DirBefore \ last.removed
            /\ \A r \in last.removed, k \in L \ last.removed :
                 r.stamp <= k.stamp
       ELSE /\ last.removed = {}
            /\ dir = DirBefore

\* C8 witness: a prune that deleted some artifacts and kept some.
C8_Witness ==
  /\ last.op = "cleanupOldImages" /\ Calm
  /\ last.keep >= 1
  /\ Cardinality(last.removed) >= 2
  /\ \E f \in dir : ArtifactName(f) /\ f.stamp >= 0

WroteLatest ==
  /\ last.op = "saveImageToDesktop" /\ ~last.threw
  /\ \A f \in written \ {last.val[1]} : f.stamp < last.val[1].stamp

\* The listing a getImageHistory() that follows the last call returns
ListingNow == getImageHistory(CallState, CalmEnv)

BeyondKeep ==
  LET L == {f \in DirBefore : ArtifactName(f)}
  IN {f \in L : Cardinality({g \in L : NameLess(f, g)}) >= last.keep}

\* C12: a prune never throws; when the listing succeeds it deletes every
\* artifact beyond the first keepCount whose deletion does not fail, whatever
\* deletions fail, and nothing else; when the listing fails it deletes
\* nothing.
C12_PruneSkipsFailures ==
  last.op = "cleanupOldImages" =>
    /\ ~last.threw
    /\ dir = DirBefore \ last.removed
    /\ last.oracle.listOk => last.removed = BeyondKeep \ last.oracle.unlinkFail
    /\ ~last.oracle.listOk => last.removed = {}

\* C12 witness: a prune deleted an artifact that comes, in the order of the
\* deletions, after an artifact whose deletion failed.
C12_Witness ==
  /\ last.op = "cleanupOldImages"
  /\ \E f \in BeyondKeep \cap last.oracle.unlinkFail, g \in last.removed :
       NameLess(g, f)

\* The operations of the Credential Store
StoreOps ==
  {"loadConfig", "saveConfig", "getConfigStatus", "updateApiKey",
   "updateModel", "updateLastUsed"}

\* The credential file holds the record r
Persisted(r) == file.kind = "json" /\ file.rec = r

\* C13: when loadConfig returns, it returns a record and the credential file
\* holds that record; a record it created is the default one (default model,
\* no API key).
C13_LoadSelfHeals ==
  (last.op = "loadConfig" /\ ~last.threw) =>
    /\ Len(last.val) = 1
    /\ Persisted(last.val)
    /\ last.wdone > 0 =>
         /\ last.val[1].apiKey = <<>>
         /\ last.val[1].model = DefaultModel

\* C14: no operation of the Credential Store changes the createdAt of the
\* record the credential file holds.
C14_CreatedAtImmutable ==
  [][(file.kind = "json" /\ file'.kind = "json")
       => file'.rec[1].createdAt = file.rec[1].createdAt]_vars

\* The last call was made with the record in the cache and saved it
SavedCached ==
  /\ last.op \in StoreOps
  /\ last.wdone > 0
  /\ last.preConfig # <<>>

\* C15 (as stated): a successful save leaves the record with an updatedAt
\* strictly greater than the updatedAt it carried before the save.
C15_UpdatedAtIncreases ==
  SavedCached => config[1].updatedAt > last.preConfig[1].updatedAt

\* C15 (amended): a successful save stamps the record, in the cache and in
\* the file, with the time of the save; with a clock that never goes back
\* that is never less than the updatedAt the record carried before, and
\* greater exactly when the clock has advanced since that earlier stamp.
C15_UpdatedAtIsNow ==
  SavedCached =>
    /\ config[1].updatedAt = now
    /\ Persisted(config)
    /\ config[1].updatedAt >= last.preConfig[1].updatedAt
    /\ (config[1].updatedAt > last.preConfig[1].updatedAt)
         <=> (last.preConfig[1].updatedAt < now)

\* C15 witness: a record saved at time 0 is saved again at a later time.
C15_Witness ==
  /\ SavedCached
  /\ last.preConfig[1].updatedAt = 0
  /\ config[1].updatedAt > 0

\* The operations that save the record
SavingOps == {"saveConfig", "updateApiKey", "updateModel", "updateLastUsed"}

\* C16: saveConfig, updateApiKey, updateModel and updateLastUsed throw the
\* configuration error whenever a write of the credential file fails; when
\* one of them returns without an error the file holds the record of the
\* cache.
C16_WriteFailureRaised ==
  last.op \in SavingOps =>
    /\ last.wtry > last.wdone =>
         /\ last.threw
         /\ last.msg[1] = "Failed to save configuration: "
    /\ ~last.threw =>
         /\ last.wdone > 0
         /\ Persisted(config)

\* C16 witness: an update of the cached record failed on its write.
C16_Witness ==
  /\ last.op \in SavingOps
  /\ last.preConfig # <<>>
  /\ last.wtry > last.wdone
  /\ last.threw

\* A non-empty string that starts with the secret prefix
HasSecretPrefix(k) ==
  Len(k) >= 3 /\ k[1] = "s" /\ k[2] = "k" /\ k[3] = "-"

\* The last call threw one of the two invalid-credential errors
InvalidCredential ==
  /\ last.threw
  /\ last.msg[1] \in {"Invalid ",
                      "Organization ID is required for image generation"}

SupportedModelSet == {"gpt-4.1", "gpt-4.1-mini", "gpt-4o", "gpt-4o-mini"}

\* The last call threw the unsupported-model error
UnsupportedModel == last.threw /\ last.msg[1] = "Unsupported "

\* C18: updateModel throws the unsupported-model error exactly for a model
\* outside the supported set, and then neither reads nor writes the
\* credential file and leaves the record as it was; for a model of the set
\* a call that returns has set the model of the record and the file holds
\* that record.
C18_UnsupportedModelRejected ==
  last.op = "updateModel" =>
    LET supported == last.args.model \in SupportedModelSet
    IN /\ UnsupportedModel <=> ~supported
       /\ ~supported => /\ last.reads = 0
                        /\ last.wtry = 0
                        /\ config = last.preConfig
       /\ (supported /\ ~last.threw) =>
            /\ config[1].model = last.args.model
            /\ Persisted(config)

\* C18 witness: a supported model replaced the model of a loaded record.
C18_Witness ==
  /\ last.op = "updateModel"
  /\ ~last.threw
  /\ last.preConfig # <<>>
  /\ last.preConfig[1].model # last.args.model
  /\ config[1].model = last.args.model

\* C19: the store becomes configured only by an updateApiKey that returns
\* without an error, and a configured store stays configured.
C19_OnlyUpdateKeyConfigures ==
  [][/\ (~KeyConfigured /\ KeyConfigured')
          => (last'.op = "updateApiKey" /\ ~last'.threw)
     /\ KeyConfigured => KeyConfigured']_vars

\* C20: in every result of getConfigStatus, configured and hasApiKey are
\* equal and are true exactly when the record holds an API key; the call
\* changes neither the cached record nor the record the file holds.
C20_StatusReadOnly ==
  [][last'.op = "getConfigStatus" =>
       /\ ~last'.threw =>
            /\ last'.val[1].configured = last'.val[1].hasApiKey
            /\ last'.val[1].configured <=> (config'[1].apiKey # <<>>)
       /\ config # <<>> => config' = config
       /\ file.kind = "json" => file' = file]_vars

\* C21: a loadConfig that follows a loadConfig, with no save in between,
\* does not read the credential file and returns the record the first call
\* left in the cache.
C21_SecondLoadCached ==
  last.op = "loadConfig" =>
    \A e \in StoreEnvs :
      \A r \in {loadConfig(CallState, e)} :
        /\ r.s.reads = 0
        /\ ~r.thrown
        /\ r.s.config = config
        /\ Len(r.s.config) = 1

\* The message of initializeOpenAI when the record holds no API key
NotConfigured ==
  <<"OpenAI ", "API key", " not configured. Please run configure-server first.">>

C23_EditNeedsReference ==
  (/\ last.op = "editImage"
   /\ last.args.previousResponseId = Undef
   /\ last.args.imageId = Undef)
  => /\ ~Envelope.success
     /\ last.up = 0
     /\ last.atry = 0

\* C24: a stream call with an API key configured and a partialImages that is
\* supplied and below 1 or above 3 returns the failure variant with the
\* message of the range check and makes no upstream call.
C24_PartialImagesRange ==
  (/\ last.op = "streamImage"
   /\ last.preKey
   /\ Calm
   /\ last.args.partialImages # <<>>
   /\ (last.args.partialImages[1] < 1 \/ last.args.partialImages[1] > 3))
  => /\ ~Envelope.success
     /\ Envelope.error[1].message = <<"Partial images must be between 1 and 3">>
     /\ last.up = 0

\* C30: a generate, edit or stream call that returns the failure variant
\* has written no artifact: the output directory is as it was.
C30_FailureWritesNothing ==
  (last.op \in GenerationOps /\ ~Envelope.success) =>
    /\ last.art = 0
    /\ last.added = {}

\* C29: an updateApiKey, updateModel or updateLastUsed that fails on the
\* write of the credential file leaves the cached record, and so the status
\* and the getters, as they were before the call.
C29_FailedUpdateLeavesCache ==
  (/\ last.op \in {"updateApiKey", "updateModel", "updateLastUsed"}
   /\ last.threw
   /\ last.wtry > last.wdone
   /\ last.preConfig # <<>>)
  => /\ config[1].apiKey = last.preConfig[1].apiKey
     /\ config[1].organization = last.preConfig[1].organization
     /\ config[1].model = last.preConfig[1].model
     /\ config[1].lastUsed = last.preConfig[1].lastUsed

\* The substrings the catch of generateImage looks for, in its order, and
\* the code of each
KeywordOrder == <<"API key", "billing", "quota", "model", "prompt">>
CodeOrder ==
  <<"INVALID_API_KEY", "BILLING_ISSUE", "QUOTA_EXCEEDED", "MODEL_ERROR",
    "PROMPT_ERROR">>
GenericSuggestions ==
  <<"Check your API key", "Verify your prompt", "Try again later">>

\* The places of the substrings a text contains
Matched(text) ==
  {i \in 1..Len(KeywordOrder) :
     \E j \in 1..Len(text) : text[j] = KeywordOrder[i]}

\* The code of the first substring matched, in the fixed order
ExpectedCode(text) ==
  IF Matched(text) = {} THEN "GENERATION_FAILED"
  ELSE CodeOrder[CHOOSE i \in Matched(text) : \A k \in Matched(text) : i <= k]

C26_StartupSurvivesDesktop ==
  [][last'.op = "run" =>
       \A r \in {getConfigStatus(CallState, last'.oracle)} :
         /\ last'.threw = r.thrown
         /\ started' = ~r.thrown]_vars

\* C26 witness: the server started although the output directory was not
\* accessible.
C26_Witness ==
  /\ last.op = "run"
  /\ ~last.oracle.accessOk
  /\ started

\* The tools of the switch of the CallTool handler
GenerationTools == {"generate-image", "edit-image", "stream-image"}
StoreTools == {"get-config-status", "list-supported-models"}
KnownTools == GenerationTools \cup StoreTools \cup {"configure-server"}

\* The issues the schema of a tool finds in its arguments
SchemaIssues(name, args) ==
  CASE name = "generate-image" -> ZodGenerate(args)
    [] name = "edit-image" -> ZodEdit(args)
    [] name = "stream-image" -> ZodStream(args)
    [] name = "configure-server" -> ZodConfigure(args)
    [] OTHER -> <<>>

\* The variant the Generation Client returns to the handler of a tool
ClientSucceeds(name, s, args, e) ==
  CASE name = "generate-image" -> generateImage(s, args, e).env.success
    [] name = "edit-image" -> editImage(s, args, e).env.success
    [] name = "stream-image" -> streamImage(s, args, e).env.success

\* The Credential Store raises an exception inside the handler of a tool
StoreRaises(name, s, args, e) ==
  CASE name = "get-config-status" -> getConfigStatus(s, e).thrown
    [] name = "list-supported-models" -> getField(s, e).thrown
    [] name = "configure-server" ->
         \E r \in {updateApiKey(s, args.apiKey, args.organization, e)} :
           \/ r.thrown
           \/ /\ args.model \notin {Undef, Empty}
              /\ updateModel(r.s, args.model, e).thrown
    [] OTHER -> FALSE

\* The result is flagged and its text starts with the given words
ErrorStarting(l, head) ==
  /\ l.isError
  /\ Len(l.text) > 0
  /\ l.text[1] = head

\* What C25 says of every tool but configure-server: the result of a tool
\* call l made in call state s
RouterAnswers(l, s) ==
  /\ ~l.threw
  /\ l.text # <<>>
  /\ l.op \notin KnownTools =>
       /\ l.isError
       /\ l.text = <<"Error: ", "Unknown tool: ", l.op>>
  /\ SchemaIssues(l.op, l.args) # <<>> => ErrorStarting(l, "Error: ")
  /\ l.op \in StoreTools =>
       /\ l.isError <=> StoreRaises(l.op, s, l.args, l.oracle)
       /\ l.isError => ErrorStarting(l, "Error: ")
  /\ (l.op \in GenerationTools /\ SchemaIssues(l.op, l.args) = <<>>)
       => (l.isError <=> ~ClientSucceeds(l.op, s, l.args, l.oracle))

IsToolCall(l) == l.op \notin {"none", "run"}

\* C25 (as stated): every tool call is answered with a result; an unknown
\* tool name, arguments that violate the schema and an exception raised
\* inside a handler give isError = true and a text that starts with
\* 'Error:' ('Error: Unknown tool: <name>' for an unknown name); for the
\* three generation tools isError is true exactly when the Generation
\* Client returned the failure variant.
C25_RouterErrorPrefix ==
  [][IsToolCall(last') =>
       /\ RouterAnswers(last', CallState)
       /\ (last'.op = "configure-server"
             /\ SchemaIssues(last'.op, last'.args) = <<>>
             /\ StoreRaises(last'.op, CallState, last'.args, last'.oracle))
            => ErrorStarting(last', "Error: ")]_vars

\* C25 (amended): as stated, except that an exception raised by the
\* Credential Store inside the configure-server handler gives isError =
\* true and a text that starts with 'Failed to configure server:'.
C25_RouterAnswersEveryCall ==
  [][IsToolCall(last') =>
       /\ RouterAnswers(last', CallState)
       /\ (last'.op = "configure-server"
             /\ SchemaIssues(last'.op, last'.args) = <<>>
             /\ StoreRaises(last'.op, CallState, last'.args, last'.oracle))
            => ErrorStarting(last', "Failed to configure server: ")]_vars

\* C25 witness: configure-server was answered when the Credential Store
\* refused the key or could not write the file.
C25_Witness ==
  /\ last.op = "configure-server"
  /\ SchemaIssues(last.op, last.args) = <<>>
  /\ last.isError
  /\ last.text[1] = "Failed to configure server: "

\* The record holds what the update m set
Holds(rec, m) ==
  CASE m.op = "updateApiKey" ->
         rec.apiKey = <<m.apiKey>> /\ rec.organization = m.organization
    [] m.op = "updateModel" -> rec.model = m.model
    [] m.op = "updateLastUsed" -> rec.lastUsed = <<m.stamp>>

\* No update is in flight
Quiet == \A i \in TaskIds : ~Busy(tasks, i)

\* C28: load, mutate and save are not one atomic step.  As long as no
\* update began while another one was in flight, the file and the cached
\* record hold every update that returned, and they are equal whenever no
\* update is in flight; the state of C28_Witness, where this fails, is
\* reached by updates that interleave at the completions of their reads
\* and writes.
C28_SerialUpdatesPersist ==
  ~tasks.overlap =>
    /\ \A m \in tasks.done :
         /\ file.kind = "json" /\ Holds(file.rec[1], m)
         /\ config # <<>> /\ Holds(config[1], m)
    /\ (Quiet /\ tasks.done # {}) => file.rec = config

\* C28 witness: two updates interleaved and both returned, and the record
\* in the file lacks what one of them set.
C28_Witness ==
  /\ Quiet
  /\ tasks.overlap
  /\ Cardinality(tasks.done) >= 2
  /\ file.kind = "json"
  /\ \E m \in tasks.done : ~Holds(file.rec[1], m)
====
